---- MODULE Spec2Model ----
(***************************************************************************)
(* A model of the Reflection Coach stores:                                 *)
(*   - the Tracking Store (src/src/tracking_manager.py, tracking_schema.py)*)
(*     goals, habits, experiments and their progress logs, kept in memory  *)
(*     and in three JSONL files;                                           *)
(*   - the Graph Store (src/graph_manager.py), a networkx DiGraph kept in  *)
(*     memory and in one node-link JSON document, with its ego walk;       *)
(*   - the Context Manager (src/src/context_manager.py), which reads both  *)
(*     stores and its session files into the context block, and the        *)
(*     Experiment Manager (src/scripts/experiment_manager.py), which opens *)
(*     a TrackingManager of its own on the same files.                     *)
(* Ids are modelled as positive integers handed out in creation order (the *)
(* code draws fresh uuid4 prefixes); None is 0.  A Python dict is a        *)
(* function; its iteration order is insertion order, which is increasing   *)
(* id order here.  Plain data fields that every operation treats alike     *)
(* (description, target_date, created_at, embedding, components, ...) are  *)
(* represented by the field title.                                         *)
(***************************************************************************)
EXTENDS Integers, Sequences, FiniteSets, TLC

VARIABLES tm, disk, next_id, today, gm, gfile, walk, last, ret, session, em

vars == <<tm, disk, next_id, today, gm, gfile, walk, last, ret, session, em>>

----------------------------------------------------------------------------
(* Bounds of the model *)

MaxGoals == 2

MaxHabits == 2

MaxExps == 1

MaxLog == 8

MaxShortLog == 2

MaxNodes == 2

MaxWalkNodes == 3

MaxGraphEdges == 2

MaxDepth == 2

MaxDay == 3

MaxIngestNodes == 3

(* Program constants *)

None == 0

MinScore == -3

MaxScore == 3

CompletionDays == 7

----------------------------------------------------------------------------
(* Generic helpers *)

InSeq(x, s) == \E i \in 1..Len(s) : s[i] = x

Max2(a, b) == IF a >= b THEN a ELSE b

Min2(a, b) == IF a <= b THEN a ELSE b

\* list.remove(x): drops the first occurrence only
RemoveFirst(s, x) ==
    LET i == CHOOSE j \in 1..Len(s) : s[j] = x /\ \A k \in 1..(j-1) : s[k] # x
    IN  SubSeq(s, 1, i-1) \o SubSeq(s, i+1, Len(s))

RECURSIVE KeySeq(_)
\* the keys of a dict in iteration order (insertion order = increasing id)
KeySeq(S) ==
    IF S = {} THEN <<>>
    ELSE LET m == CHOOSE x \in S : \A y \in S : x <= y
         IN  <<m>> \o KeySeq(S \ {m})

\* dict.values()
Values(d) == LET ks == KeySeq(DOMAIN d) IN [i \in 1..Len(ks) |-> d[ks[i]]]

\* del d[k]
Del(d, k) == [x \in (DOMAIN d) \ {k} |-> d[x]]

\* d[k] = v
Put(d, k, v) == [x \in (DOMAIN d) \cup {k} |-> IF x = k THEN v ELSE d[x]]

----------------------------------------------------------------------------
(* tracking_schema.py: records and their (de)serialisation *)

ProgressEntry_to_dict(p) ==
    [date |-> p.date, outcome |-> p.outcome, notes |-> p.notes,
     marginal_gain_score |-> p.marginal_gain_score]

ProgressEntry_from_dict(d) ==
    [date |-> d.date, outcome |-> d.outcome, notes |-> d.notes,
     marginal_gain_score |-> d.marginal_gain_score]

Experiment_to_dict(e) ==
    [id |-> e.id, habit_id |-> e.habit_id, title |-> e.title,
     status |-> e.status, last_checked |-> e.last_checked,
     progress_log |-> [i \in 1..Len(e.progress_log) |->
                          ProgressEntry_to_dict(e.progress_log[i])]]

Experiment_from_dict(d) ==
    [id |-> d.id, habit_id |-> d.habit_id, title |-> d.title,
     status |-> d.status, last_checked |-> d.last_checked,
     progress_log |-> [i \in 1..Len(d.progress_log) |->
                          ProgressEntry_from_dict(d.progress_log[i])]]

Habit_to_dict(h) ==
    [id |-> h.id, goal_id |-> h.goal_id, title |-> h.title,
     experiments |-> h.experiments, status |-> h.status]

Habit_from_dict(d) ==
    [id |-> d.id, goal_id |-> d.goal_id, title |-> d.title,
     experiments |-> d.experiments, status |-> d.status]

TargetGoal_to_dict(g) ==
    [id |-> g.id, title |-> g.title, habits |-> g.habits, status |-> g.status]

TargetGoal_from_dict(d) ==
    [id |-> d.id, title |-> d.title, habits |-> d.habits, status |-> d.status]

NewGoal(id, title) ==
    [id |-> id, title |-> title, habits |-> <<>>, status |-> "active"]

NewHabit(id, title, goal_id) ==
    [id |-> id, goal_id |-> goal_id, title |-> title, experiments |-> <<>>,
     status |-> "developing"]

NewExperiment(id, title, habit_id, day) ==
    [id |-> id, habit_id |-> habit_id, title |-> title, status |-> "active",
     last_checked |-> day, progress_log |-> <<>>]

RECURSIVE SumScores(_)
SumScores(log) ==
    IF log = <<>> THEN 0
    ELSE log[1].marginal_gain_score + SumScores(Tail(log))

\* a total that takes every score as if it had been clamped on entry
cumulative_progress_clamped(e) ==
    SumScores([i \in 1..Len(e.progress_log) |->
                  [e.progress_log[i] EXCEPT
                      !.marginal_gain_score = Max2(-3, Min2(3, @))]])

cumulative_progress(e) == SumScores(e.progress_log)

\* a count that takes full successes only
successful_days_strict(e) ==
    Cardinality({i \in 1..Len(e.progress_log) :
                    e.progress_log[i].outcome \in {"success"}})

successful_days(e) ==
    Cardinality({i \in 1..Len(e.progress_log) :
                    e.progress_log[i].outcome \in {"success", "partial"}})

----------------------------------------------------------------------------
(* tracking_manager.py: persistence.  A store state s joins the instance's *)
(* caches (goals, habits, experiments) with the three files (gf, hf, ef),  *)
(* each file a sequence of JSON objects, one per line.                     *)

Store(mem, files) ==
    [goals |-> mem.goals, habits |-> mem.habits, experiments |-> mem.experiments,
     gf |-> files.gf, hf |-> files.hf, ef |-> files.ef]

Mem(s) == [goals |-> s.goals, habits |-> s.habits, experiments |-> s.experiments]

Files(s) == [gf |-> s.gf, hf |-> s.hf, ef |-> s.ef]

\* _load_all: every line is parsed and stored under its own id, a later line
\* replacing an earlier one with the same id
LineIds(file) == {file[i].id : i \in 1..Len(file)}

LastLine(file, k) ==
    CHOOSE j \in 1..Len(file) :
        file[j].id = k /\ \A m \in (j+1)..Len(file) : file[m].id # k

load_all(files) ==
    [goals |-> [k \in LineIds(files.gf) |->
                  TargetGoal_from_dict(files.gf[LastLine(files.gf, k)])],
     habits |-> [k \in LineIds(files.hf) |->
                  Habit_from_dict(files.hf[LastLine(files.hf, k)])],
     experiments |-> [k \in LineIds(files.ef) |->
                  Experiment_from_dict(files.ef[LastLine(files.ef, k)])]]

\* a line json.loads() rejects, and a JSON object without the key id
CorruptLines == {[unparsable |-> TRUE], [title |-> "a"]}

\* json.loads(line) and from_dict(data) succeed: from_dict reads data["id"]
\* and data["title"] (KeyError when missing)
LineLoads(line) == {"id", "title"} \subseteq DOMAIN line

FileLoads(file) == \A i \in 1..Len(file) : LineLoads(file[i])

\* TrackingManager(data_dir): _load_all has no exception handler, so the
\* first line that does not load makes the constructor raise
TrackingManager_init(files) ==
    IF FileLoads(files.gf) /\ FileLoads(files.hf) /\ FileLoads(files.ef)
    THEN [raised |-> FALSE, mem |-> load_all(files)]
    ELSE [raised |-> TRUE, mem |-> [goals |-> <<>>, habits |-> <<>>, experiments |-> <<>>]]

save_goals(s) ==
    LET vs == Values(s.goals)
    IN  [s EXCEPT !.gf = [i \in 1..Len(vs) |-> TargetGoal_to_dict(vs[i])]]

save_habits(s) ==
    LET vs == Values(s.habits)
    IN  [s EXCEPT !.hf = [i \in 1..Len(vs) |-> Habit_to_dict(vs[i])]]

save_experiments(s) ==
    LET vs == Values(s.experiments)
    IN  [s EXCEPT !.ef = [i \in 1..Len(vs) |-> Experiment_to_dict(vs[i])]]

\* for key, value in kwargs.items(): if hasattr(rec, key) [and key not in
\* protected]: setattr(rec, key, value)
ApplyKwargs(rec, kwargs, protected) ==
    [f \in DOMAIN rec |->
        IF f \in DOMAIN kwargs /\ f \notin protected THEN kwargs[f] ELSE rec[f]]

----------------------------------------------------------------------------
(* tracking_manager.py: goals *)

create_goal(s, id, title) ==
    LET goal == NewGoal(id, title)
    IN  [s EXCEPT !.goals = Put(s.goals, id, goal),
                  !.gf = Append(s.gf, TargetGoal_to_dict(goal))]

\* what hasattr() finds on a goal or habit beyond its fields: the methods
\* of the dataclass
Methods == {"to_dict", "from_dict"}

\* for key, value in kwargs.items(): if hasattr(obj, key): setattr(...).
\* A key that names a method becomes an instance attribute
SetAttrs(rec, kwargs) ==
    [f \in (DOMAIN rec) \cup ((DOMAIN kwargs) \cap Methods) |->
        IF f \in DOMAIN kwargs THEN kwargs[f] ELSE rec[f]]

\* x.to_dict() can be called on every record of the dict: no instance
\* attribute hides the method (otherwise the save raises TypeError)
CanSave(d) == \A k \in DOMAIN d : "to_dict" \notin DOMAIN d[k]

update_goal(s, goal_id, kwargs) ==
    IF goal_id \notin DOMAIN s.goals THEN s
    ELSE LET s1 == [s EXCEPT !.goals[goal_id] = SetAttrs(@, kwargs)]
         IN  IF CanSave(s1.goals) THEN save_goals(s1) ELSE s1

add_habit_to_goal(s, goal_id, habit_id) ==
    IF goal_id \in DOMAIN s.goals /\ ~InSeq(habit_id, s.goals[goal_id].habits)
    THEN save_goals([s EXCEPT !.goals[goal_id].habits = Append(@, habit_id)])
    ELSE s

----------------------------------------------------------------------------
(* tracking_manager.py: habits *)

create_habit(s, id, title, goal_id) ==
    LET habit == NewHabit(id, title, goal_id)
        s1 == [s EXCEPT !.habits = Put(s.habits, id, habit),
                        !.hf = Append(s.hf, Habit_to_dict(habit))]
    IN  IF goal_id # None THEN add_habit_to_goal(s1, goal_id, id) ELSE s1

\* [h for h in self._habits.values() if h.goal_id == goal_id], as the list of
\* the records' own id fields (delete_goal reads h.id)
get_habits_for_goal(s, goal_id) ==
    LET vs == Values(s.habits)
    IN  SelectSeq(vs, LAMBDA h : h.goal_id = goal_id)

update_habit(s, habit_id, kwargs) ==
    IF habit_id \notin DOMAIN s.habits THEN s
    ELSE LET s1 == [s EXCEPT !.habits[habit_id] = SetAttrs(@, kwargs)]
         IN  IF CanSave(s1.habits) THEN save_habits(s1) ELSE s1

add_experiment_to_habit(s, habit_id, experiment_id) ==
    IF habit_id \in DOMAIN s.habits
       /\ ~InSeq(experiment_id, s.habits[habit_id].experiments)
    THEN save_habits([s EXCEPT !.habits[habit_id].experiments =
                                    Append(@, experiment_id)])
    ELSE s

\* a delete_habit that also drops the habit's experiments (a cascade the
\* code does not perform)
delete_habit_cascading(s, habit_id) ==
    IF habit_id \notin DOMAIN s.habits THEN s
    ELSE LET keep == {e \in DOMAIN s.experiments :
                         s.experiments[e].habit_id # habit_id}
             s1 == [s EXCEPT !.habits = Del(s.habits, habit_id),
                             !.experiments = [e \in keep |-> s.experiments[e]]]
         IN  save_experiments(save_habits(s1))

delete_habit(s, habit_id) ==
    IF habit_id \notin DOMAIN s.habits THEN s
    ELSE LET habit == s.habits[habit_id]
             s1 == IF /\ habit.goal_id # None
                      /\ habit.goal_id \in DOMAIN s.goals
                      /\ InSeq(habit_id, s.goals[habit.goal_id].habits)
                   THEN save_goals([s EXCEPT !.goals[habit.goal_id].habits =
                                                  RemoveFirst(@, habit_id)])
                   ELSE s
         IN  save_habits([s1 EXCEPT !.habits = Del(s1.habits, habit_id)])

RECURSIVE DeleteHabits(_, _)
\* for habit_id in habits_to_delete: self.delete_habit(habit_id)
DeleteHabits(s, ids) ==
    IF ids = <<>> THEN s
    ELSE DeleteHabits(delete_habit(s, Head(ids)), Tail(ids))

delete_goal(s, goal_id) ==
    IF goal_id \notin DOMAIN s.goals THEN s
    ELSE LET hs == get_habits_for_goal(s, goal_id)
             habits_to_delete == [i \in 1..Len(hs) |-> hs[i].id]
             s1 == DeleteHabits(s, habits_to_delete)
         IN  save_goals([s1 EXCEPT !.goals = Del(s1.goals, goal_id)])

----------------------------------------------------------------------------
(* tracking_manager.py: experiments *)

create_experiment(s, id, title, habit_id, day) ==
    LET exp == NewExperiment(id, title, habit_id, day)
        s1 == [s EXCEPT !.experiments = Put(s.experiments, id, exp),
                        !.ef = Append(s.ef, Experiment_to_dict(exp))]
    IN  IF habit_id # None THEN add_experiment_to_habit(s1, habit_id, id) ELSE s1

\* a clamp that forgets the lower end of the range
ClampUpperOnly(score) == Min2(MaxScore, score)

\* score = max(-3, min(3, marginal_gain_score))
Clamp(score) == Max2(MinScore, Min2(MaxScore, score))

\* an auto-completion that compares with > instead of >=
AutoCompleteLate(exp) ==
    IF successful_days(exp) > CompletionDays /\ exp.status = "active"
    THEN [exp EXCEPT !.status = "completed"]
    ELSE exp

\* if exp.successful_days() >= 7 and exp.status == "active": completed
AutoComplete(exp) ==
    IF successful_days(exp) >= CompletionDays /\ exp.status = "active"
    THEN [exp EXCEPT !.status = "completed"]
    ELSE exp

\* a log_progress that leaves last_checked as it was
log_progress_unstamped(s, exp_id, outcome, notes, marginal_gain_score, day) ==
    IF exp_id \notin DOMAIN s.experiments THEN s
    ELSE LET entry == [date |-> day, outcome |-> outcome, notes |-> notes,
                       marginal_gain_score |-> Clamp(marginal_gain_score)]
             exp == s.experiments[exp_id]
             exp1 == [exp EXCEPT !.progress_log = Append(@, entry)]
         IN  save_experiments([s EXCEPT !.experiments[exp_id] = AutoComplete(exp1)])

log_progress(s, exp_id, outcome, notes, marginal_gain_score, day) ==
    IF exp_id \notin DOMAIN s.experiments THEN s
    ELSE LET entry == [date |-> day, outcome |-> outcome, notes |-> notes,
                       marginal_gain_score |-> Clamp(marginal_gain_score)]
             exp == s.experiments[exp_id]
             exp1 == [exp EXCEPT !.progress_log = Append(@, entry),
                                 !.last_checked = day]
         IN  save_experiments([s EXCEPT !.experiments[exp_id] = AutoComplete(exp1)])

complete_experiment(s, exp_id, reason) ==
    IF exp_id \notin DOMAIN s.experiments THEN s
    ELSE save_experiments([s EXCEPT !.experiments[exp_id].status = reason])

\* the log_entry branch: the entry is parsed (a dict) and appended as given
AppendLogEntry(exp, kwargs) ==
    IF "log_entry" \in DOMAIN kwargs
    THEN [exp EXCEPT !.progress_log =
                        Append(@, ProgressEntry_from_dict(kwargs.log_entry))]
    ELSE exp

\* an update that lets the keyword progress_log through
update_experiment_unprotected(s, exp_id, kwargs, import_ok) ==
    IF exp_id \notin DOMAIN s.experiments THEN s
    ELSE IF "log_entry" \in DOMAIN kwargs /\ ~import_ok THEN s
    ELSE LET exp1 == AppendLogEntry(s.experiments[exp_id], kwargs)
             exp2 == ApplyKwargs(exp1, kwargs, {"id"})
         IN  save_experiments([s EXCEPT !.experiments[exp_id] = exp2])

\* import_ok: whether "from tracking_schema import ProgressEntry" (line 350)
\* resolves on the interpreter's sys.path; when it does not, the call raises
\* before anything is changed
update_experiment(s, exp_id, kwargs, import_ok) ==
    IF exp_id \notin DOMAIN s.experiments THEN s
    ELSE IF "log_entry" \in DOMAIN kwargs /\ ~import_ok THEN s
    ELSE LET exp1 == AppendLogEntry(s.experiments[exp_id], kwargs)
             exp2 == ApplyKwargs(exp1, kwargs, {"id", "progress_log"})
         IN  save_experiments([s EXCEPT !.experiments[exp_id] = exp2])

\* a last_checked that date.fromisoformat() rejects (ValueError, TypeError)
NotADate == -1

get_active_experiments(s) ==
    SelectSeq(Values(s.experiments), LAMBDA e : e.status \in {"active", "testing"})

\* a follow-up test that also takes an experiment checked on the day itself
needs_followup_same_day(exp, day) ==
    IF exp.last_checked = NotADate THEN TRUE ELSE day >= exp.last_checked

\* the body of the loop of get_experiments_needing_followup
needs_followup(exp, day) ==
    IF exp.last_checked = NotADate THEN TRUE ELSE day > exp.last_checked

get_experiments_needing_followup(s, day) ==
    SelectSeq(get_active_experiments(s), LAMBDA e : needs_followup(e, day))

\* {} for an unknown experiment
NoGains == [experiment_id |-> None]

\* average_gain, a float, is kept as the fraction total / days
calculate_marginal_gains(s, exp_id) ==
    IF exp_id \notin DOMAIN s.experiments THEN NoGains
    ELSE LET exp == s.experiments[exp_id]
             total == cumulative_progress(exp)
             days == Len(exp.progress_log)
             successful == successful_days(exp)
         IN  [experiment_id |-> exp_id,
              title |-> exp.title,
              total_progress |-> total,
              days_tracked |-> days,
              successful_days |-> successful,
              average_gain |-> IF days > 0 THEN <<total, days>> ELSE <<0, 1>>,
              status |-> exp.status,
              near_completion |-> successful >= 5]

----------------------------------------------------------------------------
(* graph_schema.py and graph_manager.py.  The DiGraph G is a record of two *)
(* dicts: nodes (key -> attribute dict) and edges (<<u, v>> -> attribute   *)
(* dict), one edge per ordered pair.  An attribute dict keeps the keys the *)
(* store reads: id and type for a node; source, target and type for an     *)
(* edge; None (for type: "none") stands for a key the dict does not have.  *)
(* Nodes and edges are iterated in increasing key order.                   *)

EmptyGraph == [nodes |-> <<>>, edges |-> <<>>]

NodeTypes == {"Belief"}

EdgeTypes == {"TRIGGERED", "REINFORCES"}

NoAttrs == [id |-> None, type |-> "none"]

Node_to_dict(id, type) == [id |-> id, type |-> type]

Edge_to_dict(source_id, target_id, type) ==
    [source |-> source_id, target |-> target_id, type |-> type]

\* dict.update(attrs)
Update(d, attrs) ==
    [k \in (DOMAIN d) \cup (DOMAIN attrs) |->
        IF k \in DOMAIN attrs THEN attrs[k] ELSE d[k]]

\* DiGraph.add_node(n, **attrs): a new node gets attrs, a node already in
\* the graph has its attribute dict updated with attrs
DiGraph_add_node(G, n, attrs) ==
    [G EXCEPT !.nodes = Put(@, n, IF n \in DOMAIN @ THEN Update(@[n], attrs)
                                  ELSE attrs)]

\* DiGraph.add_edge(u, v, **attrs): endpoints that are not nodes become
\* nodes with no attributes; an edge already in the graph has its attribute
\* dict updated with attrs
DiGraph_add_edge(G, u, v, attrs) ==
    LET withU == IF u \in DOMAIN G.nodes THEN G.nodes
                 ELSE Put(G.nodes, u, NoAttrs)
        withV == IF v \in DOMAIN withU THEN withU ELSE Put(withU, v, NoAttrs)
    IN  [nodes |-> withV,
         edges |-> Put(G.edges, <<u, v>>,
                       IF <<u, v>> \in DOMAIN G.edges
                       THEN Update(G.edges[<<u, v>>], attrs) ELSE attrs)]

number_of_nodes(G) == Cardinality(DOMAIN G.nodes)

number_of_edges(G) == Cardinality(DOMAIN G.edges)

RECURSIVE EdgeSeq(_)
\* the edges of a DiGraph in iteration order
EdgeSeq(E) ==
    IF E = {} THEN <<>>
    ELSE LET m == CHOOSE x \in E : \A y \in E :
                      x[1] < y[1] \/ (x[1] = y[1] /\ x[2] <= y[2])
         IN  <<m>> \o EdgeSeq(E \ {m})

\* nx.node_link_data: every node dict gets the key id set to the node's
\* key, every link dict the keys source and target set to its endpoints
node_link_data(G) ==
    LET ns == KeySeq(DOMAIN G.nodes)
        es == EdgeSeq(DOMAIN G.edges)
    IN  [exists |-> TRUE,
         nodes  |-> [i \in 1..Len(ns) |-> [G.nodes[ns[i]] EXCEPT !.id = ns[i]]],
         links  |-> [i \in 1..Len(es) |->
                        [G.edges[es[i]] EXCEPT !.source = es[i][1],
                                               !.target = es[i][2]]]]

RECURSIVE LoadNodes(_, _)
\* node_link_graph, the loop over data["nodes"]: the key is taken from id,
\* the attributes are the other entries
LoadNodes(G, ds) ==
    IF ds = <<>> THEN G
    ELSE LoadNodes(DiGraph_add_node(G, Head(ds).id,
                                    [Head(ds) EXCEPT !.id = None]),
                   Tail(ds))

RECURSIVE LoadLinks(_, _)
\* node_link_graph, the loop over the links: the endpoints are taken from
\* source and target, the attributes are the other entries
LoadLinks(G, ds) ==
    IF ds = <<>> THEN G
    ELSE LoadLinks(DiGraph_add_edge(G, Head(ds).source, Head(ds).target,
                                    [Head(ds) EXCEPT !.source = None,
                                                     !.target = None]),
                   Tail(ds))

node_link_graph(data) == LoadLinks(LoadNodes(EmptyGraph, data.nodes), data.links)

NoFile == [exists |-> FALSE, nodes |-> <<>>, links |-> <<>>]

\* a graph file json.load() rejects, and a JSON document without a links
\* list, which node_link_graph rejects
CorruptGraphFiles == {[exists |-> TRUE], [exists |-> TRUE, nodes |-> <<>>]}

\* load_graph: any exception of json.load or node_link_graph is caught and
\* the graph starts empty
load_graph(file) ==
    IF ~file.exists THEN EmptyGraph
    ELSE IF {"nodes", "links"} \subseteq DOMAIN file THEN node_link_graph(file)
    ELSE EmptyGraph

save_graph(G) == node_link_data(G)

add_node(G, file, id, type) ==
    LET G2 == DiGraph_add_node(G, id, Node_to_dict(id, type))
    IN  [graph |-> G2, file |-> save_graph(G2)]

add_edge_unsaved(G, file, source_id, target_id, type) ==
    LET G2 == DiGraph_add_edge(G, source_id, target_id,
                               Edge_to_dict(source_id, target_id, type))
    IN  [graph |-> G2, file |-> file]

add_edge(G, file, source_id, target_id, type) ==
    LET G2 == DiGraph_add_edge(G, source_id, target_id,
                               Edge_to_dict(source_id, target_id, type))
    IN  [graph |-> G2, file |-> save_graph(G2)]

successors(G, n) == {v \in DOMAIN G.nodes : <<n, v>> \in DOMAIN G.edges}

predecessors(G, n) == {u \in DOMAIN G.nodes : <<u, n>> \in DOMAIN G.edges}

\* get_neighbors(node_id, direction="both")
get_neighbors(G, node_id) ==
    IF node_id \notin DOMAIN G.nodes THEN <<>>
    ELSE LET out == KeySeq(successors(G, node_id))
             inc == KeySeq(predecessors(G, node_id))
         IN  [i \in 1..Len(out) |->
                 [node |-> G.nodes[out[i]], edge |-> G.edges[<<node_id, out[i]>>],
                  direction |-> "outgoing"]]
             \o
             [i \in 1..Len(inc) |->
                 [node |-> G.nodes[inc[i]], edge |-> G.edges[<<inc[i], node_id>>],
                  direction |-> "incoming"]]

RECURSIVE ScanNeighbors_revisiting(_, _, _, _)
\* a neighbour loop that enqueues a neighbour whether visited or not
ScanNeighbors_revisiting(w, items, current_id, current_depth) ==
    IF items = <<>> \/ w.raised THEN w
    ELSE LET item == Head(items)
             neighbor_id == item.node.id
             outgoing == item.direction = "outgoing"
         IN  IF neighbor_id = None THEN [w EXCEPT !.raised = TRUE]
             ELSE ScanNeighbors_revisiting(
                    [visited |-> w.visited \cup {neighbor_id},
                     queue   |-> Append(w.queue, <<neighbor_id, current_depth + 1>>),
                     nodes   |-> w.nodes \cup {neighbor_id},
                     edges   |-> Append(w.edges,
                                   [source |-> IF outgoing THEN current_id ELSE neighbor_id,
                                    target |-> IF outgoing THEN neighbor_id ELSE current_id,
                                    type   |-> item.edge.type]),
                     raised  |-> FALSE],
                    Tail(items), current_id, current_depth)

RECURSIVE ScanNeighbors(_, _, _, _)
\* ego_walk, the loop over the neighbours of one node; neighbor_node['id']
\* raises KeyError on a node that has no id attribute
ScanNeighbors(w, items, current_id, current_depth) ==
    IF items = <<>> \/ w.raised THEN w
    ELSE LET item == Head(items)
             neighbor_id == item.node.id
             outgoing == item.direction = "outgoing"
         IN  IF neighbor_id = None THEN [w EXCEPT !.raised = TRUE]
             ELSE ScanNeighbors(
                    [visited |-> w.visited \cup {neighbor_id},
                     queue   |-> IF neighbor_id \notin w.visited
                                 THEN Append(w.queue, <<neighbor_id, current_depth + 1>>)
                                 ELSE w.queue,
                     nodes   |-> w.nodes \cup {neighbor_id},
                     edges   |-> Append(w.edges,
                                   [source |-> IF outgoing THEN current_id ELSE neighbor_id,
                                    target |-> IF outgoing THEN neighbor_id ELSE current_id,
                                    type   |-> item.edge.type]),
                     raised  |-> FALSE],
                    Tail(items), current_id, current_depth)

RECURSIVE Traverse(_, _, _)
\* ego_walk, the while loop over the queue
Traverse(G, w, depth) ==
    IF w.queue = <<>> \/ w.raised THEN w
    ELSE LET current == Head(w.queue)
             popped == [w EXCEPT !.queue = Tail(@)]
         IN  IF current[2] >= depth THEN Traverse(G, popped, depth)
             ELSE Traverse(G, ScanNeighbors(popped, get_neighbors(G, current[1]),
                                            current[1], current[2]),
                           depth)

Range(s) == {s[i] : i \in 1..Len(s)}

NoWalk == [status |-> "none", anchors |-> <<>>, depth |-> 0, nodes |-> {}, edges |-> <<>>]

\* ego_walk(anchor_node_ids, depth): "empty" is the fixed answer for no
\* anchors, "raised" a KeyError (a neighbour without id, or the rendering
\* of an id that is not a node), "ok" a rendered subgraph
ego_walk(G, anchor_node_ids, depth) ==
    IF anchor_node_ids = <<>>
    THEN [NoWalk EXCEPT !.status = "empty", !.depth = depth]
    ELSE LET w == Traverse(G, [visited |-> Range(anchor_node_ids),
                               queue   |-> [i \in 1..Len(anchor_node_ids) |->
                                               <<anchor_node_ids[i], 0>>],
                               nodes   |-> Range(anchor_node_ids),
                               edges   |-> <<>>,
                               raised  |-> FALSE],
                           depth)
         IN  IF w.raised \/ ~(w.nodes \subseteq DOMAIN G.nodes)
             THEN [status |-> "raised", anchors |-> anchor_node_ids,
                   depth |-> depth, nodes |-> {}, edges |-> <<>>]
             ELSE [status |-> "ok", anchors |-> anchor_node_ids,
                   depth |-> depth, nodes |-> w.nodes, edges |-> w.edges]

\* ego_walk taken one step at a time.  A walk in progress has status
\* "running" and carries the queue, the visited set, the entry popped last
\* and the neighbour items the for loop has still to take.
Raised(w) ==
    [status |-> "raised", anchors |-> w.anchors, depth |-> w.depth,
     nodes |-> {}, edges |-> <<>>]

\* lines 98-105: the early return, or the seeding of queue and visited
ego_walk_begin(anchor_node_ids, depth) ==
    IF anchor_node_ids = <<>>
    THEN [NoWalk EXCEPT !.status = "empty", !.depth = depth]
    ELSE [status |-> "running", anchors |-> anchor_node_ids, depth |-> depth,
          nodes |-> Range(anchor_node_ids), edges |-> <<>>,
          queue |-> [i \in 1..Len(anchor_node_ids) |-> <<anchor_node_ids[i], 0>>],
          visited |-> Range(anchor_node_ids),
          current |-> <<None, 0>>, items |-> <<>>]

\* lines 108-113: queue.pop(0), the depth test, get_neighbors
ego_walk_pop(G, w) ==
    LET current == Head(w.queue)
    IN  [w EXCEPT !.queue = Tail(@),
                  !.current = current,
                  !.items = IF current[2] >= w.depth THEN <<>>
                            ELSE get_neighbors(G, current[1])]

\* lines 114-129: the body of the for loop, for the next item
ego_walk_visit(w) ==
    LET r == ScanNeighbors([visited |-> w.visited, queue |-> w.queue,
                            nodes |-> w.nodes, edges |-> w.edges, raised |-> FALSE],
                           <<Head(w.items)>>, w.current[1], w.current[2])
    IN  IF r.raised THEN Raised(w)
        ELSE [w EXCEPT !.visited = r.visited, !.queue = r.queue,
                       !.nodes = r.nodes, !.edges = r.edges, !.items = Tail(@)]

\* line 131: the rendering, KeyError on an id that is not a node
ego_walk_return(G, w) ==
    IF ~(w.nodes \subseteq DOMAIN G.nodes) THEN Raised(w)
    ELSE [status |-> "ok", anchors |-> w.anchors, depth |-> w.depth,
          nodes |-> w.nodes, edges |-> w.edges]

\* get_node(node_id): the node's attribute dict, None for an unknown id
get_node(G, node_id) ==
    IF node_id \in DOMAIN G.nodes THEN G.nodes[node_id] ELSE None

\* the text-bearing field of each Node subclass (graph_schema.py); a
\* DistortionNode, an InquiryThreadNode and a plain Node have none
TextField ==
    [Belief |-> "text", Event |-> "description", Emotion |-> "label", Topic |-> "name"]

\* to_dict of a Node subclass: the base fields and the subclass's own
SubNode_to_dict(id, type, content) ==
    IF type \in DOMAIN TextField
    THEN [k \in {"id", "type", TextField[type]} |->
             IF k = "id" THEN id ELSE IF k = "type" THEN type ELSE content]
    ELSE Node_to_dict(id, type)

add_sub_node(G, file, id, type, content) ==
    LET G2 == DiGraph_add_node(G, id, SubNode_to_dict(id, type, content))
    IN  [graph |-> G2, file |-> save_graph(G2)]

\* str.lower(); a string is a sequence of characters
lower(str) ==
    [i \in 1..Len(str) |-> IF str[i] = "A" THEN "a"
                           ELSE IF str[i] = "B" THEN "b" ELSE str[i]]

\* sub in str
Contains(sub, str) ==
    \E i \in 0..(Len(str) - Len(sub)) : SubSeq(str, i + 1, i + Len(sub)) = sub

\* find_nodes_by_text, the if/elif chain: content stays "" when the node
\* has none of the four fields
content_of(data) ==
    IF "text" \in DOMAIN data THEN data.text
    ELSE IF "description" \in DOMAIN data THEN data.description
    ELSE IF "label" \in DOMAIN data THEN data.label
    ELSE IF "name" \in DOMAIN data THEN data.name
    ELSE <<>>

find_nodes_by_text(G, text) ==
    LET search_term == lower(text)
        hits == SelectSeq(KeySeq(DOMAIN G.nodes),
                          LAMBDA n : Contains(search_term, lower(content_of(G.nodes[n]))))
    IN  [i \in 1..Len(hits) |-> G.nodes[hits[i]]]

----------------------------------------------------------------------------
(* ingestion_pipeline.py.  The model output is data: kind "empty" is what  *)
(* _call_llm returns on any failure ({}), "array" a JSON document that is  *)
(* no object, "object" a payload with a nodes and an edges list.  A node   *)
(* entry has kind "object" (with a type and the text of its class) or      *)
(* "string" (a JSON value that is no object).                              *)

\* a source_index / target_index that is no integer (a JSON string)
NotAnInt == -99

\* the types the node factory of process_session creates
FactoryTypes == {"Belief", "Event", "Emotion", "Topic", "Distortion", "Person"}

\* a fresh uuid4: an id that is in no graph yet
FreshId(G) ==
    IF DOMAIN G.nodes = {} THEN 1
    ELSE 1 + CHOOSE m \in DOMAIN G.nodes : \A n \in DOMAIN G.nodes : n <= m

RECURSIVE CreateNodes(_, _)
\* process_session, the loop over data["nodes"]; n_data.get raises
\* AttributeError on an entry that is no object.  node_of records, per
\* position of the payload, the id of the node made from it (None: none)
CreateNodes(st, entries) ==
    IF entries = <<>> \/ st.raised THEN st
    ELSE LET n_data == Head(entries)
         IN  IF n_data.kind # "object" THEN [st EXCEPT !.raised = TRUE]
             ELSE IF n_data.type \in FactoryTypes
             THEN LET id == FreshId(st.graph)
                      r == add_sub_node(st.graph, st.file, id, n_data.type,
                                        n_data.content)
                  IN  CreateNodes([graph |-> r.graph, file |-> r.file,
                                   extracted_nodes |-> Append(st.extracted_nodes, id),
                                   node_of |-> Append(st.node_of, id),
                                   raised |-> FALSE],
                                  Tail(entries))
             ELSE CreateNodes([st EXCEPT !.node_of = Append(@, None)],
                              Tail(entries))

RECURSIVE CreateEdges(_, _)
\* process_session, the loop over data["edges"]: the range test compares
\* source_index first and target_index only when source_index is in range
\* (a comparison of an int with a str raises TypeError); an unknown edge
\* type is a caught KeyError
CreateEdges(st, entries) ==
    IF entries = <<>> \/ st.raised THEN st
    ELSE LET e_data == Head(entries)
             src_idx == e_data.source_index
             tgt_idx == e_data.target_index
             len == Len(st.extracted_nodes)
         IN  IF src_idx = NotAnInt THEN [st EXCEPT !.raised = TRUE]
             ELSE IF ~(0 <= src_idx /\ src_idx < len) THEN CreateEdges(st, Tail(entries))
             ELSE IF tgt_idx = NotAnInt THEN [st EXCEPT !.raised = TRUE]
             ELSE IF ~(0 <= tgt_idx /\ tgt_idx < len) THEN CreateEdges(st, Tail(entries))
             ELSE IF e_data.type \notin EdgeTypes THEN CreateEdges(st, Tail(entries))
             ELSE LET r == add_edge(st.graph, st.file,
                                    st.extracted_nodes[src_idx + 1],
                                    st.extracted_nodes[tgt_idx + 1], e_data.type)
                  IN  CreateEdges([st EXCEPT !.graph = r.graph, !.file = r.file],
                                  Tail(entries))

process_session(G, file, data) ==
    LET st == [graph |-> G, file |-> file, extracted_nodes |-> <<>>,
               node_of |-> <<>>, raised |-> FALSE]
    IN  IF data.kind = "empty" THEN st
        ELSE IF data.kind = "array" THEN [st EXCEPT !.raised = TRUE]
        ELSE CreateEdges(CreateNodes(st, data.nodes), data.edges)

----------------------------------------------------------------------------
(* scripts/experiment_manager.py: the ExperimentManager works on a        *)
(* TrackingManager of its own (self.tm).                                   *)

Outcomes == {"success", "partial", "not_tried", "failed"}

\* add_experiment
ExperimentManager_add_experiment(s, id, title, habit_id, day) ==
    create_experiment(s, id, title, habit_id, day)

\* log_progress: the two input checks return early; the entry goes to
\* update_experiment, and an exception of that call is caught and printed
ExperimentManager_log_progress(s, exp_id, outcome, notes, score, day, import_ok) ==
    IF outcome \notin Outcomes THEN s
    ELSE IF ~(MinScore <= score /\ score <= MaxScore) THEN s
    ELSE update_experiment(s, exp_id,
                           [log_entry |-> [date |-> day, outcome |-> outcome,
                                           notes |-> notes,
                                           marginal_gain_score |-> score]],
                           import_ok)

----------------------------------------------------------------------------
(* context_manager.py.  The ContextManager holds the application's         *)
(* TrackingManager and GraphManager (LLM_reflection.py:212-216).  Of       *)
(* last_session.json only open_loops is read back, of                      *)
(* weekly/context_memory.json only focus_for_next_week.  A rendered text   *)
(* is kept as the data it renders; the three literal strings are kept as   *)
(* strings.                                                                *)

\* ego_walk's default depth
DefaultDepth == 2

\* s[:n]
Take(s, n) == SubSeq(s, 1, Min2(n, Len(s)))

get_active_goals(s) == SelectSeq(Values(s.goals), LAMBDA g : g.status = "active")

get_active_habits(s) == SelectSeq(Values(s.habits), LAMBDA h : h.status = "developing")

\* save_session_memory: the file is rewritten with the given open_loops
save_session_memory(sess, open_loops) == [sess EXCEPT !.open_loops = open_loops]

\* _generate_followup_suggestions: experiments[:3], then open_loops[:2]
generate_followup_suggestions(followups, open_loops) ==
    LET exps == Take(followups, 3)
        loops == Take(open_loops, 2)
    IN  [i \in 1..Len(exps) |->
            [about |-> "experiment", title |-> exps[i].title,
             progress |-> cumulative_progress(exps[i])]]
        \o [i \in 1..Len(loops) |-> [about |-> "loop", text |-> loops[i]]]

NoGraphContext == [text |-> ""]

NotFoundContext == [text |-> "No specific past context found."]

\* step 5 of build_session_context: n['id'] raises KeyError on a node
\* without an id attribute, and so may ego_walk
graph_context(G, user_input) ==
    IF user_input = <<>> THEN [raised |-> FALSE, context |-> NoGraphContext]
    ELSE LET anchors == Take(find_nodes_by_text(G, user_input), 3)
             anchor_ids == [i \in 1..Len(anchors) |-> anchors[i].id]
         IN  IF \E i \in 1..Len(anchors) : anchors[i].id = None
             THEN [raised |-> TRUE, context |-> NoGraphContext]
             ELSE IF anchor_ids = <<>>
             THEN [raised |-> FALSE, context |-> NotFoundContext]
             ELSE LET w == ego_walk(G, anchor_ids, DefaultDepth)
                  IN  [raised |-> w.status = "raised",
                       context |-> [text |-> "Graph Context", walk |-> w]]

build_session_context(s, G, sess, user_input, day) ==
    LET followups == get_experiments_needing_followup(s, day)
        gc == graph_context(G, user_input)
    IN  [raised |-> gc.raised,
         active_goals |-> get_active_goals(s),
         habits_in_focus |-> get_active_habits(s),
         experiments_needing_followup |-> followups,
         last_session_summary |-> [open_loops |-> sess.open_loops],
         weekly_focus |-> sess.weekly_focus,
         graph_context |-> gc.context,
         suggested_followups |->
             generate_followup_suggestions(followups, sess.open_loops)]

\* sections.append(...) under "if <data>:"
Section(present, header, body) ==
    IF present THEN <<[header |-> header, body |-> body]>> ELSE <<>>

Fallback == "No prior context available."

\* get_full_context_block after its call of build_session_context: "joined"
\* stands for the sections joined by blank lines
format_context_block(ctx) ==
    LET sections ==
            Section(ctx.active_goals # <<>>, "ACTIVE GOALS", Take(ctx.active_goals, 3))
            \o Section(ctx.habits_in_focus # <<>>, "HABITS IN DEVELOPMENT",
                       Take(ctx.habits_in_focus, 5))
            \o Section(ctx.experiments_needing_followup # <<>>,
                       "EXPERIMENTS NEEDING FOLLOW-UP", ctx.experiments_needing_followup)
            \o Section(ctx.suggested_followups # <<>>, "SUGGESTED FOLLOW-UPS",
                       ctx.suggested_followups)
            \o Section(ctx.weekly_focus # "", "WEEKLY FOCUS", ctx.weekly_focus)
            \o Section(ctx.graph_context.text # "", "RELEVANT PAST CONTEXT",
                       ctx.graph_context)
    IN  [raised |-> ctx.raised,
         sections |-> IF ctx.raised THEN <<>> ELSE sections,
         text |-> IF ctx.raised THEN "" ELSE IF sections # <<>> THEN "joined" ELSE Fallback]

get_full_context_block(s, G, sess, user_input, day) ==
    format_context_block(build_session_context(s, G, sess, user_input, day))

----------------------------------------------------------------------------
(* State.  tm: the TrackingManager instance's caches; disk: the three JSONL *)
(* files; next_id: the next fresh id of each kind; today: date.today();     *)
(* gm: the GraphManager's DiGraph; gfile: the graph JSON document; walk:    *)
(* the result of the latest ego_walk; last: the latest call and its result; *)
(* ret: the value the latest call returned when it was a query; session:    *)
(* what the ContextManager reads back from its two files; em: the caches of *)
(* the TrackingManager that the ExperimentManager opens for itself.         *)

EmptyMem == [goals |-> <<>>, habits |-> <<>>, experiments |-> <<>>]

EmptyFiles == [gf |-> <<>>, hf |-> <<>>, ef |-> <<>>]

\* ret when the latest call was not a query
NoReturn == <<>>

\* last_session.json and weekly/context_memory.json before they are written
NoSession == [open_loops |-> <<>>, weekly_focus |-> ""]

Call(op, id, ok) == [op |-> op, id |-> id, ok |-> ok, outcome |-> "", score |-> 0]

Init ==
    /\ tm = EmptyMem
    /\ disk = EmptyFiles
    /\ next_id = [goal |-> 1, habit |-> 1, exp |-> 1]
    /\ today = 1
    /\ gm = EmptyGraph
    /\ gfile = NoFile
    /\ walk = NoWalk
    /\ ret = NoReturn
    /\ session = NoSession
    /\ em = EmptyMem
    /\ last = Call("init", None, TRUE)

S == Store(tm, disk)

Apply(r) == tm' = Mem(r) /\ disk' = Files(r)

GraphUnchanged == UNCHANGED <<gm, gfile, walk>>

\* the context files and the ExperimentManager's own TrackingManager
OthersUnchanged == UNCHANGED <<session, em>>

\* ids handed out so far (an id is known to a caller only once it was created)
CreatedGoals == 1..(next_id.goal - 1)

CreatedHabits == 1..(next_id.habit - 1)

CreatedExps == 1..(next_id.exp - 1)

----------------------------------------------------------------------------
(* Tracking Store actions: one per public method *)

CreateGoal(title) ==
    /\ next_id.goal <= MaxGoals
    /\ Apply(create_goal(S, next_id.goal, title))
    /\ next_id' = [next_id EXCEPT !.goal = @ + 1]
    /\ last' = Call("create_goal", next_id.goal, TRUE)
    /\ UNCHANGED today /\ GraphUnchanged /\ ret' = NoReturn /\ OthersUnchanged

UpdateGoal(goal_id, kwargs) ==
    /\ Apply(update_goal(S, goal_id, kwargs))
    /\ last' = Call("update_goal", goal_id,
                     goal_id \in DOMAIN tm.goals /\ CanSave(tm'.goals))
    /\ UNCHANGED <<next_id, today>> /\ GraphUnchanged /\ ret' = NoReturn /\ OthersUnchanged

AddHabitToGoal(goal_id, habit_id) ==
    /\ Apply(add_habit_to_goal(S, goal_id, habit_id))
    /\ last' = Call("add_habit_to_goal", goal_id, TRUE)
    /\ UNCHANGED <<next_id, today>> /\ GraphUnchanged /\ ret' = NoReturn /\ OthersUnchanged

DeleteGoal(goal_id) ==
    /\ Apply(delete_goal(S, goal_id))
    /\ last' = Call("delete_goal", goal_id, goal_id \in DOMAIN tm.goals)
    /\ UNCHANGED <<next_id, today>> /\ GraphUnchanged /\ ret' = NoReturn /\ OthersUnchanged

CreateHabit(title, goal_id) ==
    /\ next_id.habit <= MaxHabits
    /\ Apply(create_habit(S, next_id.habit, title, goal_id))
    /\ next_id' = [next_id EXCEPT !.habit = @ + 1]
    /\ last' = Call("create_habit", next_id.habit, TRUE)
    /\ UNCHANGED today /\ GraphUnchanged /\ ret' = NoReturn /\ OthersUnchanged

UpdateHabit(habit_id, kwargs) ==
    /\ Apply(update_habit(S, habit_id, kwargs))
    /\ last' = Call("update_habit", habit_id,
                     habit_id \in DOMAIN tm.habits /\ CanSave(tm'.habits))
    /\ UNCHANGED <<next_id, today>> /\ GraphUnchanged /\ ret' = NoReturn /\ OthersUnchanged

AddExperimentToHabit(habit_id, experiment_id) ==
    /\ Apply(add_experiment_to_habit(S, habit_id, experiment_id))
    /\ last' = Call("add_experiment_to_habit", habit_id, TRUE)
    /\ UNCHANGED <<next_id, today>> /\ GraphUnchanged /\ ret' = NoReturn /\ OthersUnchanged

DeleteHabit(habit_id) ==
    /\ Apply(delete_habit(S, habit_id))
    /\ last' = Call("delete_habit", habit_id, habit_id \in DOMAIN tm.habits)
    /\ UNCHANGED <<next_id, today>> /\ GraphUnchanged /\ ret' = NoReturn /\ OthersUnchanged

CreateExperiment(title, habit_id) ==
    /\ next_id.exp <= MaxExps
    /\ Apply(create_experiment(S, next_id.exp, title, habit_id, today))
    /\ next_id' = [next_id EXCEPT !.exp = @ + 1]
    /\ last' = Call("create_experiment", next_id.exp, TRUE)
    /\ UNCHANGED today /\ GraphUnchanged /\ ret' = NoReturn /\ OthersUnchanged

\* the guard caps the log, which the code lets grow without bound
LogProgress(exp_id, outcome, notes, score) ==
    /\ exp_id \in DOMAIN tm.experiments => Len(tm.experiments[exp_id].progress_log) < MaxLog
    /\ Apply(log_progress(S, exp_id, outcome, notes, score, today))
    /\ last' = [Call("log_progress", exp_id, exp_id \in DOMAIN tm.experiments)
                    EXCEPT !.outcome = outcome, !.score = score]
    /\ UNCHANGED <<next_id, today>> /\ GraphUnchanged /\ ret' = NoReturn /\ OthersUnchanged

CompleteExperiment(exp_id, reason) ==
    /\ Apply(complete_experiment(S, exp_id, reason))
    /\ last' = Call("complete_experiment", exp_id, exp_id \in DOMAIN tm.experiments)
    /\ UNCHANGED <<next_id, today>> /\ GraphUnchanged /\ ret' = NoReturn /\ OthersUnchanged

\* ok is FALSE when the experiment is unknown (None is returned) and when the
\* call raises on the failed import
UpdateExperiment(exp_id, kwargs, import_ok) ==
    /\ exp_id \in DOMAIN tm.experiments => Len(tm.experiments[exp_id].progress_log) < MaxLog
    /\ Apply(update_experiment(S, exp_id, kwargs, import_ok))
    /\ last' = [Call("update_experiment", exp_id,
                     /\ exp_id \in DOMAIN tm.experiments
                     /\ ("log_entry" \in DOMAIN kwargs => import_ok))
                    EXCEPT !.outcome = IF "log_entry" \in DOMAIN kwargs
                                       THEN kwargs.log_entry.outcome ELSE "",
                           !.score = IF "log_entry" \in DOMAIN kwargs
                                     THEN kwargs.log_entry.marginal_gain_score ELSE 0]
    /\ UNCHANGED <<next_id, today>> /\ GraphUnchanged /\ ret' = NoReturn /\ OthersUnchanged

GetExperimentsNeedingFollowup ==
    /\ ret' = get_experiments_needing_followup(S, today)
    /\ last' = Call("get_experiments_needing_followup", None, TRUE)
    /\ UNCHANGED <<tm, disk, next_id, today>> /\ GraphUnchanged /\ OthersUnchanged

\* midnight passes: date.today() moves on
NextDay ==
    /\ today < MaxDay
    /\ today' = today + 1
    /\ last' = Call("next_day", None, TRUE)
    /\ UNCHANGED <<tm, disk, next_id>> /\ GraphUnchanged /\ ret' = NoReturn /\ OthersUnchanged

CalculateMarginalGains(exp_id) ==
    /\ ret' = calculate_marginal_gains(S, exp_id)
    /\ last' = Call("calculate_marginal_gains", exp_id, exp_id \in DOMAIN tm.experiments)
    /\ UNCHANGED <<tm, disk, next_id, today>> /\ GraphUnchanged /\ OthersUnchanged

----------------------------------------------------------------------------
(* Graph Store actions.  Node keys are 1..MaxNodes; walk holds the result  *)
(* of the latest call when that call was an ego_walk.                      *)

TrackingUnchanged == UNCHANGED <<tm, disk, next_id, today>>

AddNode(id, type) ==
    /\ LET r == add_node(gm, gfile, id, type)
       IN  gm' = r.graph /\ gfile' = r.file
    /\ walk' = NoWalk
    /\ last' = Call("add_node", None, TRUE)
    /\ TrackingUnchanged /\ ret' = NoReturn /\ OthersUnchanged

AddEdge(source_id, target_id, type) ==
    /\ \/ <<source_id, target_id>> \in DOMAIN gm.edges
       \/ number_of_edges(gm) < MaxGraphEdges
    /\ LET r == add_edge(gm, gfile, source_id, target_id, type)
       IN  gm' = r.graph /\ gfile' = r.file
    /\ walk' = NoWalk
    /\ last' = Call("add_edge", None, TRUE)
    /\ TrackingUnchanged /\ ret' = NoReturn /\ OthersUnchanged

\* a new GraphManager on the same storage_path
Reload ==
    /\ gm' = load_graph(gfile)
    /\ walk' = NoWalk
    /\ last' = Call("load_graph", None, TRUE)
    /\ UNCHANGED gfile /\ TrackingUnchanged /\ ret' = NoReturn /\ OthersUnchanged

EgoWalk(anchor_node_ids, depth) ==
    /\ walk' = ego_walk(gm, anchor_node_ids, depth)
    /\ last' = Call("ego_walk", None, walk'.status # "raised")
    /\ UNCHANGED <<gm, gfile>> /\ TrackingUnchanged /\ ret' = NoReturn /\ OthersUnchanged

AddSubNode(id, type, content) ==
    /\ LET r == add_sub_node(gm, gfile, id, type, content)
       IN  gm' = r.graph /\ gfile' = r.file
    /\ walk' = NoWalk
    /\ last' = Call("add_node", id, TRUE)
    /\ TrackingUnchanged /\ ret' = NoReturn /\ OthersUnchanged

FindNodesByText(text) ==
    /\ ret' = [query |-> text, result |-> find_nodes_by_text(gm, text)]
    /\ last' = Call("find_nodes_by_text", None, TRUE)
    /\ UNCHANGED <<gm, gfile, walk>> /\ TrackingUnchanged /\ OthersUnchanged

\* ret keeps the payload the session consumed and node_of
ProcessSession(data) ==
    /\ number_of_nodes(gm) + Len(data.nodes) <= MaxIngestNodes
    /\ LET r == process_session(gm, gfile, data)
       IN  /\ gm' = r.graph /\ gfile' = r.file
           /\ ret' = [data |-> data, node_of |-> r.node_of]
           /\ last' = Call("process_session", None, ~r.raised)
    /\ walk' = NoWalk
    /\ TrackingUnchanged /\ OthersUnchanged

\* the environment damages a tracking file: a line that does not load is
\* appended (a torn write, an edit by hand)
CorruptTrackingFile(f, line) ==
    /\ disk' = [disk EXCEPT ![f] = Append(@, line)]
    /\ last' = Call("corrupt_tracking_file", None, TRUE)
    /\ UNCHANGED <<tm, next_id, today>> /\ GraphUnchanged /\ ret' = NoReturn /\ OthersUnchanged

\* the environment damages the graph file
CorruptGraphFile(file) ==
    /\ gfile' = file
    /\ last' = Call("corrupt_graph_file", None, TRUE)
    /\ UNCHANGED <<gm, walk>> /\ TrackingUnchanged /\ ret' = NoReturn /\ OthersUnchanged

\* a new TrackingManager on the same data_dir; when the constructor raises
\* there is no new instance and tm stays the one in use
RestartTracking ==
    /\ LET r == TrackingManager_init(disk)
       IN  /\ tm' = IF r.raised THEN tm ELSE r.mem
           /\ last' = Call("TrackingManager", None, ~r.raised)
    /\ UNCHANGED <<disk, next_id, today>> /\ GraphUnchanged /\ ret' = NoReturn /\ OthersUnchanged

----------------------------------------------------------------------------
(* The ego walk as a process: the call, each pop of the queue, each pass   *)
(* of the for loop and the return are steps.  The GraphManager is used by  *)
(* one thread, so no other graph operation runs while a walk is in         *)
(* progress.                                                               *)

Idle == walk.status # "running"

WalkStep(op, w) ==
    /\ walk' = w
    /\ last' = Call(op, None, w.status # "raised")
    /\ UNCHANGED <<gm, gfile>> /\ TrackingUnchanged /\ OthersUnchanged /\ ret' = NoReturn

EgoWalkBegin(anchor_node_ids, depth) ==
    /\ Idle
    /\ WalkStep("ego_walk_begin", ego_walk_begin(anchor_node_ids, depth))

EgoWalkPop ==
    /\ walk.status = "running" /\ walk.items = <<>> /\ walk.queue # <<>>
    /\ \E w \in {ego_walk_pop(gm, walk)} : WalkStep("ego_walk_pop", w)

EgoWalkVisit ==
    /\ walk.status = "running" /\ walk.items # <<>>
    /\ \E w \in {ego_walk_visit(walk)} : WalkStep("ego_walk_visit", w)

EgoWalkReturn ==
    /\ walk.status = "running" /\ walk.items = <<>> /\ walk.queue = <<>>
    /\ \E w \in {ego_walk_return(gm, walk)} : WalkStep("ego_walk", w)

----------------------------------------------------------------------------
(* Experiment Manager actions: the same files, the caches em *)

ES == Store(em, disk)

ApplyE(r) == em' = Mem(r) /\ disk' = Files(r)

\* ExperimentManager(): a TrackingManager that loads the files as they are
OpenExperimentManager ==
    /\ LET r == TrackingManager_init(disk)
       IN  /\ em' = IF r.raised THEN em ELSE r.mem
           /\ last' = Call("ExperimentManager", None, ~r.raised)
    /\ UNCHANGED <<tm, disk, session>> /\ UNCHANGED <<next_id, today>>
    /\ GraphUnchanged /\ ret' = NoReturn

ExpAddExperiment(title, habit_id) ==
    /\ next_id.exp <= MaxExps
    /\ ApplyE(ExperimentManager_add_experiment(ES, next_id.exp, title, habit_id, today))
    /\ next_id' = [next_id EXCEPT !.exp = @ + 1]
    /\ last' = Call("em.add_experiment", next_id.exp, TRUE)
    /\ UNCHANGED <<tm, session, today>> /\ GraphUnchanged /\ ret' = NoReturn

\* ok: the entry was logged ("[OK] Logged entry" is printed also for an
\* unknown experiment, for which update_experiment returns None)
ExpLogProgress(exp_id, outcome, notes, score, import_ok) ==
    /\ exp_id \in DOMAIN em.experiments => Len(em.experiments[exp_id].progress_log) < MaxLog
    /\ ApplyE(ExperimentManager_log_progress(ES, exp_id, outcome, notes, score,
                                             today, import_ok))
    /\ last' = [Call("em.log_progress", exp_id,
                     /\ exp_id \in DOMAIN em.experiments
                     /\ outcome \in Outcomes
                     /\ MinScore <= score /\ score <= MaxScore
                     /\ import_ok)
                    EXCEPT !.outcome = outcome, !.score = score]
    /\ UNCHANGED <<tm, session, next_id, today>> /\ GraphUnchanged /\ ret' = NoReturn

----------------------------------------------------------------------------
(* Context Manager actions *)

SaveSessionMemory(open_loops) ==
    /\ session' = save_session_memory(session, open_loops)
    /\ last' = Call("save_session_memory", None, TRUE)
    /\ TrackingUnchanged /\ GraphUnchanged /\ UNCHANGED em /\ ret' = NoReturn

\* weekly/context_memory.json is written outside the ContextManager
WriteWeeklyContext(focus) ==
    /\ session' = [session EXCEPT !.weekly_focus = focus]
    /\ last' = Call("write_weekly_context", None, TRUE)
    /\ TrackingUnchanged /\ GraphUnchanged /\ UNCHANGED em /\ ret' = NoReturn

\* ret keeps the input with the block
GetFullContextBlock(user_input) ==
    /\ \E ctx \in {build_session_context(S, gm, session, user_input, today)} :
       \E r \in {format_context_block(ctx)} :
           /\ ret' = [user_input |-> user_input, sections |-> r.sections, text |-> r.text]
           /\ last' = Call("get_full_context_block", None, ~r.raised)
    /\ TrackingUnchanged /\ GraphUnchanged /\ OthersUnchanged

----------------------------------------------------------------------------
(* The link structure of the store: goals, habits and experiments are      *)
(* created, linked, re-linked and deleted; every record carries one title. *)

NextTree ==
    \/ CreateGoal("a")
    \/ \E g \in CreatedGoals \cup {None} : CreateHabit("a", g)
    \/ \E h \in CreatedHabits \cup {None} : CreateExperiment("a", h)
    \/ \E g \in CreatedGoals : DeleteGoal(g)
    \/ \E h \in CreatedHabits : DeleteHabit(h)
    \/ \E g \in CreatedGoals, h \in CreatedHabits : AddHabitToGoal(g, h)
    \/ \E h \in CreatedHabits, e \in CreatedExps : AddExperimentToHabit(h, e)
    \/ \E h \in CreatedHabits, g \in CreatedGoals \cup {None} :
            UpdateHabit(h, [goal_id |-> g])
    \/ \E e \in CreatedExps, h \in CreatedHabits \cup {None} :
            UpdateExperiment(e, [habit_id |-> h], TRUE)

SpecTree == Init /\ [][NextTree]_vars

(* One experiment and its progress log, long enough to cross the         *)
(* completion threshold; entries arrive through log_progress and through  *)
(* update_experiment(log_entry=...), the path of the command-line tool.   *)

LogEntry(outcome, score) ==
    [date |-> today, outcome |-> outcome, notes |-> "n",
     marginal_gain_score |-> score]

NextLog ==
    \/ next_id.exp = 1 /\ CreateExperiment("a", None)
    \/ \E o \in {"success", "partial", "failed"} : LogProgress(1, o, "n", 1)
    \/ \E o \in {"success", "failed"}, import_ok \in BOOLEAN :
            UpdateExperiment(1, [log_entry |-> LogEntry(o, 1)], import_ok)
    \/ \E r \in {"completed", "abandoned"} : CompleteExperiment(1, r)
    \/ \E st \in {"active", "testing"} : UpdateExperiment(1, [status |-> st], TRUE)
    \/ UpdateExperiment(1, [id |-> 2], TRUE)

SpecLog == Init /\ [][NextLog]_vars

(* One experiment with a short progress log and scores inside and outside *)
(* [-3, 3]; id 2 is an id no experiment has.                              *)

ScoreInputs == {-10, -4, -3, 0, 2, 3, 4, 10}

LogRoom(e, n) ==
    e \in DOMAIN tm.experiments => Len(tm.experiments[e].progress_log) < n

NextScore ==
    \/ next_id.exp = 1 /\ CreateExperiment("a", None)
    \/ \E e \in {1, 2}, o \in {"success", "not_tried"}, sc \in ScoreInputs :
            LogRoom(e, MaxShortLog) /\ LogProgress(e, o, "n", sc)
    \/ \E e \in {1, 2}, o \in {"partial"}, sc \in ScoreInputs,
          import_ok \in BOOLEAN :
            /\ LogRoom(e, MaxShortLog)
            /\ UpdateExperiment(e, [log_entry |-> LogEntry(o, sc)], import_ok)
    \/ \E e \in {1, 2} : CompleteExperiment(e, "abandoned")

SpecScore == Init /\ [][NextScore]_vars

(* Record ids under update: goals and habits are created, given another id *)
(* through update_goal / update_habit, and deleted.                        *)

NextIds ==
    \/ CreateGoal("a")
    \/ \E g \in CreatedGoals \cup {None} : CreateHabit("a", g)
    \/ \E g \in CreatedGoals : DeleteGoal(g)
    \/ \E h \in CreatedHabits : DeleteHabit(h)
    \/ \E g \in CreatedGoals, v \in CreatedGoals : UpdateGoal(g, [id |-> v])
    \/ \E h \in CreatedHabits, v \in CreatedHabits : UpdateHabit(h, [id |-> v])
    \/ \E g \in CreatedGoals, t \in {"a", "b"} : UpdateGoal(g, [title |-> t])
    \/ \E h \in CreatedHabits : UpdateHabit(h, [bogus |-> "x"])

SpecIds == Init /\ [][NextIds]_vars

(* Creation and deletion alone: the two cascades of the store on trees of  *)
(* goals, habits and experiments, orphans (parent None) included.          *)

NextDelete ==
    \/ CreateGoal("a")
    \/ \E g \in CreatedGoals \cup {None} : CreateHabit("a", g)
    \/ \E h \in CreatedHabits \cup {None} : CreateExperiment("a", h)
    \/ \E g \in CreatedGoals : DeleteGoal(g)
    \/ \E h \in CreatedHabits : DeleteHabit(h)

SpecDelete == Init /\ [][NextDelete]_vars

(* Follow-up detection over the days: experiments are created, logged,    *)
(* given another status or last_checked (a date, or a value that is none)  *)
(* while the date moves on.                                                *)

NextFollowup ==
    \/ CreateExperiment("a", None)
    \/ NextDay
    \/ \E e \in CreatedExps : LogRoom(e, 1) /\ LogProgress(e, "success", "n", 1)
    \/ \E e \in CreatedExps, d \in (1..MaxDay) \cup {NotADate} :
            UpdateExperiment(e, [last_checked |-> d], TRUE)
    \/ \E e \in CreatedExps, st \in {"active", "testing", "completed"} :
            UpdateExperiment(e, [status |-> st], TRUE)
    \/ GetExperimentsNeedingFollowup

SpecFollowup == Init /\ [][NextFollowup]_vars

(* The summary of one experiment whose short log is filled through         *)
(* log_progress (validated outcomes, clamped scores) and through           *)
(* update_experiment(log_entry=...) (outcomes and scores as given).        *)

NextGains ==
    \/ next_id.exp = 1 /\ CreateExperiment("a", None)
    \/ \E o \in {"success", "not_tried"}, sc \in {-4, 2} :
            LogRoom(1, MaxShortLog) /\ LogProgress(1, o, "n", sc)
    \/ \E o \in {"partial", "failed", "Success"}, sc \in {-1, 10} :
            /\ LogRoom(1, MaxShortLog)
            /\ UpdateExperiment(1, [log_entry |-> LogEntry(o, sc)], TRUE)
    \/ \E e \in {1, 2} : CalculateMarginalGains(e)

SpecGains == Init /\ [][NextGains]_vars

(* The graph under add_node, add_edge and restart. *)

NodeIds == 1..MaxNodes

NextGraph ==
    \/ \E n \in NodeIds, t \in NodeTypes : AddNode(n, t)
    \/ \E u \in NodeIds, v \in NodeIds, t \in EdgeTypes : AddEdge(u, v, t)
    \/ Reload

SpecGraph == Init /\ [][NextGraph]_vars

(* The ego walk on the graphs the store can hold: one node type and one    *)
(* edge type, anchor lists of up to two ids, depths 0..MaxDepth.           *)

WalkNodeIds == 1..MaxWalkNodes

AnchorLists ==
    {<<>>} \cup {<<n>> : n \in WalkNodeIds}
           \cup {<<m, n>> : m \in WalkNodeIds, n \in WalkNodeIds}

NextWalk ==
    \/ \E n \in WalkNodeIds : AddNode(n, "Belief")
    \/ \E u \in WalkNodeIds, v \in WalkNodeIds : AddEdge(u, v, "TRIGGERED")
    \/ Reload
    \/ \E a \in AnchorLists, d \in 0..MaxDepth : EgoWalk(a, d)

SpecWalk == Init /\ [][NextWalk]_vars

(* Text search over nodes with one, two or none of the text-bearing fields *)
(* (a node added again under its id keeps the fields of the earlier one).  *)

SubNodeTypes == {"Belief", "Event", "Distortion"}

Texts == {<<>>, <<"A", "b">>, <<"b">>}

Queries == {<<>>, <<"a">>, <<"B">>, <<"a", "b">>, <<"b", "a">>}

NextFind ==
    \/ \E n \in NodeIds, t \in SubNodeTypes, c \in Texts : AddSubNode(n, t, c)
    \/ \E q \in Queries : FindNodesByText(q)

SpecFind == Init /\ [][NextFind]_vars

(* Ingestion of sessions: payloads of up to MaxIngestNodes node entries    *)
(* (a type the factory creates, one it does not, an entry that is no       *)
(* object) and at most one edge entry, and the outputs that are no payload.*)

NodeEntries ==
    {[kind |-> "object", type |-> "Event", content |-> <<"a">>],
     [kind |-> "object", type |-> "User", content |-> <<"b">>],
     [kind |-> "string", type |-> "none", content |-> <<>>]}

RECURSIVE SeqsUpTo(_, _)
\* the sequences over Elems of length at most n
SeqsUpTo(Elems, n) ==
    IF n = 0 THEN {<<>>}
    ELSE LET shorter == SeqsUpTo(Elems, n - 1)
         IN  shorter \cup {Append(q, x) : q \in shorter, x \in Elems}

EdgeEntries ==
    [source_index : (0..(MaxIngestNodes - 1)) \cup {NotAnInt},
     target_index : (0..(MaxIngestNodes - 1)) \cup {NotAnInt},
     type : {"TRIGGERED", "BOGUS"}]

Payloads ==
    [kind : {"object"}, nodes : SeqsUpTo(NodeEntries, MaxIngestNodes),
     edges : SeqsUpTo(EdgeEntries, 1)]
    \cup [kind : {"empty", "array"}, nodes : {<<>>}, edges : {<<>>}]

NextIngest ==
    \/ \E data \in Payloads : ProcessSession(data)
    \/ Reload

SpecIngest == Init /\ [][NextIngest]_vars

(* Start-up on damaged files: the stores write their files, the            *)
(* environment damages one, and new store instances are opened.            *)

NextCorrupt ==
    \/ CreateGoal("a")
    \/ \E f \in {"gf", "hf", "ef"}, line \in CorruptLines :
            FileLoads(disk[f]) /\ CorruptTrackingFile(f, line)
    \/ RestartTracking
    \/ AddNode(1, "Belief")
    \/ \E file \in CorruptGraphFiles : CorruptGraphFile(file)
    \/ Reload

SpecCorrupt == Init /\ [][NextCorrupt]_vars

(* Updates of goals and of habits without a parent goal, with keyword      *)
(* names of every kind: a field, a name the record does not have, and the  *)
(* name of a method.                                                       *)

NextUpdate ==
    \/ CreateGoal("a")
    \/ CreateHabit("a", None)
    \/ \E g \in 1..MaxGoals, t \in {"a", "b"} : UpdateGoal(g, [title |-> t])
    \/ \E g \in 1..MaxGoals : UpdateGoal(g, [status |-> "achieved", bogus |-> "x"])
    \/ \E g \in 1..MaxGoals : UpdateGoal(g, [to_dict |-> "x"])
    \/ \E h \in 1..MaxHabits, t \in {"a", "b"} : UpdateHabit(h, [title |-> t])
    \/ \E h \in 1..MaxHabits : UpdateHabit(h, [bogus |-> "x"])
    \/ \E h \in 1..MaxHabits : UpdateHabit(h, [to_dict |-> "x"])

SpecUpdate == Init /\ [][NextUpdate]_vars

----------------------------------------------------------------------------
(* The context block over a store with a goal, a habit and an experiment,  *)
(* a graph of text nodes, an open loop carried over and a weekly focus.    *)

NextContext ==
    \/ CreateGoal("a")
    \/ CreateHabit("a", None)
    \/ CreateExperiment("a", None)
    \/ NextDay
    \/ \E id \in NodeIds, c \in Texts : AddSubNode(id, "Belief", c)
    \/ \E l \in {<<>>, <<"loop">>} : SaveSessionMemory(l)
    \/ \E f \in {"", "focus"} : WriteWeeklyContext(f)
    \/ \E q \in Queries : GetFullContextBlock(q)

SpecContext == Init /\ [][NextContext]_vars

----------------------------------------------------------------------------
(* One experiment whose status is set by every operation that can set it:  *)
(* auto-completion, complete_experiment with the two documented reasons    *)
(* and with another one, update_experiment with a status.                  *)

NextStatus ==
    \/ next_id.exp = 1 /\ CreateExperiment("a", None)
    \/ \E o \in {"success", "failed"}, sc \in {0, 1} :
            LogRoom(1, MaxShortLog) /\ LogProgress(1, o, "n", sc)
    \/ \E r \in {"completed", "abandoned", "paused"} : CompleteExperiment(1, r)
    \/ \E st \in {"active", "testing", "archived"} :
            UpdateExperiment(1, [status |-> st], TRUE)

SpecStatus == Init /\ [][NextStatus]_vars

----------------------------------------------------------------------------
(* One experiment under a habit, its log extended through both logging     *)
(* paths, with the operations that rewrite the experiment or its file      *)
(* around them: status changes, an update naming progress_log, the         *)
(* deletion of the parent habit, a restart from the files.                 *)

NextAppend ==
    \/ next_id.habit = 1 /\ CreateHabit("a", None)
    \/ next_id.exp = 1 /\ \E h \in CreatedHabits \cup {None} : CreateExperiment("a", h)
    \/ \E o \in {"success", "failed"} :
            LogRoom(1, MaxShortLog) /\ LogProgress(1, o, "n", 1)
    \/ \E import_ok \in BOOLEAN :
            /\ LogRoom(1, MaxShortLog)
            /\ UpdateExperiment(1, [log_entry |-> LogEntry("partial", 2)], import_ok)
    \/ UpdateExperiment(1, [progress_log |-> <<>>], TRUE)
    \/ UpdateExperiment(1, [status |-> "testing"], TRUE)
    \/ CompleteExperiment(1, "abandoned")
    \/ DeleteHabit(1)
    \/ RestartTracking

SpecAppend == Init /\ [][NextAppend]_vars

----------------------------------------------------------------------------
(* Two TrackingManager instances on one directory, as the application      *)
(* holds them: its own (tm) and the ExperimentManager's (em), both opened  *)
(* at start-up, used in alternation.  Nothing is deleted.                  *)

NextShared ==
    \/ CreateGoal("a")
    \/ CreateExperiment("a", None)
    \/ \E e \in CreatedExps : LogRoom(e, MaxShortLog) /\ LogProgress(e, "success", "n", 1)
    \/ ExpAddExperiment("b", None)
    \/ \E e \in CreatedExps :
            /\ e \in DOMAIN em.experiments => Len(em.experiments[e].progress_log) < MaxShortLog
            /\ ExpLogProgress(e, "partial", "n", 1, TRUE)
    \/ OpenExperimentManager
    \/ RestartTracking

SpecShared == Init /\ [][NextShared]_vars

----------------------------------------------------------------------------
(* Follow-up after logging: experiment 1 is brought to any last_checked  *)
(* (an earlier, the same or a later date, or a value that is no date) and  *)
(* to any status before it is logged on a day; after the log of the day,   *)
(* its status still changes, the date moves on and the store is reopened.  *)

LoggedOn(mem, e, day) ==
    \E i \in 1..Len(mem.experiments[e].progress_log) :
        mem.experiments[e].progress_log[i].date = day

NextRecheck ==
    \/ next_id.exp = 1 /\ CreateExperiment("a", None)
    \/ NextDay
    \/ LogRoom(1, MaxShortLog) /\ LogProgress(1, "success", "n", 1)
    \/ \E d \in (1..MaxDay) \cup {NotADate} :
            /\ 1 \in DOMAIN tm.experiments
            /\ ~LoggedOn(tm, 1, today)
            /\ UpdateExperiment(1, [last_checked |-> d], TRUE)
    \/ \E st \in {"active", "testing", "completed"} :
            UpdateExperiment(1, [status |-> st], TRUE)
    \/ CompleteExperiment(1, "abandoned")
    \/ GetExperimentsNeedingFollowup
    \/ RestartTracking

SpecRecheck == Init /\ [][NextRecheck]_vars

----------------------------------------------------------------------------
(* The command-line tool: experiments are added and logged through the     *)
(* ExperimentManager over the days, with outcomes and scores inside and    *)
(* outside what the tool accepts.                                          *)

NextCli ==
    \/ ExpAddExperiment("a", None)
    \/ NextDay
    \/ \E e \in CreatedExps, o \in {"success", "failed", "skipped"}, sc \in {1, 4},
          import_ok \in BOOLEAN :
            /\ e \in DOMAIN em.experiments => Len(em.experiments[e].progress_log) < MaxShortLog
            /\ ExpLogProgress(e, o, "n", sc, import_ok)

SpecCli == Init /\ [][NextCli]_vars

----------------------------------------------------------------------------
(* Termination of the ego walk: graphs with cycles and self-loops over the *)
(* node keys (nodes added in key order, or brought in by an edge), anchor  *)
(* lists with a repeated id, depths 0, 1 and MaxDepth.  The                *)
(* interpreter keeps executing a loop it has entered: weak fairness of    *)
(* every step of the walk.                                                 *)

NextTerm ==
    \/ \E n \in NodeIds : Idle /\ number_of_nodes(gm) = n - 1 /\ AddNode(n, "Belief")
    \/ \E u \in NodeIds, v \in NodeIds : Idle /\ AddEdge(u, v, "TRIGGERED")
    \/ \E a \in {<<>>, <<1>>, <<1, 1>>, <<1, 2>>}, d \in {0, 1, MaxDepth} :
            EgoWalkBegin(a, d)
    \/ EgoWalkPop
    \/ EgoWalkVisit
    \/ EgoWalkReturn

SpecTerm ==
    /\ Init /\ [][NextTerm]_vars
    /\ WF_vars(EgoWalkPop) /\ WF_vars(EgoWalkVisit) /\ WF_vars(EgoWalkReturn)

----------------------------------------------------------------------------
(* C5: after delete_goal(g) on an existing goal, g is gone and no habit    *)
(* with goal_id = g remains; on an unknown goal it returns False and       *)
(* changes nothing.                                                        *)
C5_DeleteGoalCascades ==
    [][last'.op = "delete_goal" =>
          IF last'.ok
          THEN /\ last'.id \notin DOMAIN tm'.goals
               /\ \A h \in DOMAIN tm'.habits : tm'.habits[h].goal_id # last'.id
          ELSE tm' = tm /\ disk' = disk]_vars

(* C6: delete_habit(h) on an existing habit removes h from the habits and  *)
(* from its parent goal's habits list and leaves the experiments, in       *)
(* memory and on file, as they were (habit_id included); the deletions of  *)
(* a delete_goal cascade leave the experiments alone too.                  *)
C6_DeleteHabitKeepsExperiments ==
    [][/\ (last'.op = "delete_habit" /\ last'.ok) =>
            /\ last'.id \in DOMAIN tm.habits
            /\ last'.id \notin DOMAIN tm'.habits
            /\ \A g \in DOMAIN tm'.goals :
                  g = tm.habits[last'.id].goal_id
                      => ~InSeq(last'.id, tm'.goals[g].habits)
            /\ tm'.experiments = tm.experiments
            /\ disk'.ef = disk.ef
       /\ last'.op = "delete_goal" =>
            /\ tm'.experiments = tm.experiments
            /\ disk'.ef = disk.ef]_vars

\* a habit was deleted and an experiment still names it as its parent
C6_Witness ==
    /\ last.op = "delete_habit" /\ last.ok
    /\ last.id \notin DOMAIN tm.habits
    /\ \E e \in DOMAIN tm.experiments : tm.experiments[e].habit_id = last.id

(* C7: parent and child references agree: h is in g.habits iff h.goal_id   *)
(* = g, and e is in h.experiments iff e.habit_id = h, for all records in   *)
(* the store.                                                              *)
C7_ReferencesConsistent ==
    /\ \A g \in DOMAIN tm.goals, h \in DOMAIN tm.habits :
          InSeq(tm.habits[h].id, tm.goals[g].habits)
              <=> tm.habits[h].goal_id = tm.goals[g].id
    /\ \A h \in DOMAIN tm.habits, e \in DOMAIN tm.experiments :
          InSeq(tm.experiments[e].id, tm.habits[h].experiments)
              <=> tm.experiments[e].habit_id = tm.habits[h].id

(* C8: a new TrackingManager opened on the same directory holds the same   *)
(* goals, habits and experiments as the instance that wrote the files.     *)
C8_ReloadEqualsMemory == load_all(disk) = tm

----------------------------------------------------------------------------
\* the clamp as the claims state it: min(3, max(-3, score))
ClaimedScore(score) == IF score > 3 THEN 3 ELSE IF score < -3 THEN -3 ELSE score

(* C1: a log_progress on an active experiment leaves it active while the   *)
(* count of success/partial entries, the new one included, is below 7, and *)
(* completes it when the call brings the count to 7; no log_progress turns *)
(* a status into completed while the count is below 7.                     *)
C1_CompletesAtSeven ==
    [][(last'.op = "log_progress" /\ last'.ok) =>
          LET before == tm.experiments[last'.id]
              after == tm'.experiments[last'.id]
          IN  /\ (before.status = "active" /\ successful_days(after) < 7)
                    => after.status = "active"
              /\ (before.status = "active" /\ successful_days(after) = 7
                    /\ successful_days(before) = 6)
                    => after.status = "completed"
              /\ (before.status # "completed" /\ successful_days(after) < 7)
                    => after.status # "completed"]_vars

\* the seventh successful log_progress has just completed the experiment
C1_Witness ==
    /\ last.op = "log_progress" /\ last.ok /\ last.outcome = "success"
    /\ successful_days(tm.experiments[last.id]) = 7
    /\ Len(tm.experiments[last.id].progress_log) = 8
    /\ tm.experiments[last.id].status = "completed"

(* C2: no experiment is active with successful_days() >= 7.                *)
C2_NoActiveAtSeven ==
    \A e \in DOMAIN tm.experiments :
        ~(tm.experiments[e].status = "active"
          /\ successful_days(tm.experiments[e]) >= 7)

(* C3: log_progress on an existing experiment appends exactly one entry,   *)
(* whose marginal_gain_score is the given score clamped into [-3, 3].      *)
C3_LogProgressClamps ==
    [][(last'.op = "log_progress" /\ last'.ok) =>
          LET before == tm.experiments[last'.id].progress_log
              after == tm'.experiments[last'.id].progress_log
          IN  /\ Len(after) = Len(before) + 1
              /\ SubSeq(after, 1, Len(before)) = before
              /\ after[Len(after)].marginal_gain_score = ClaimedScore(last'.score)
              /\ after[Len(after)].outcome = last'.outcome]_vars

\* a score below the range was logged and stored as -3
C3_Witness ==
    /\ last.op = "log_progress" /\ last.ok /\ last.score = -10
    /\ LET log == tm.experiments[last.id].progress_log
       IN  Len(log) = 2 /\ log[2].marginal_gain_score = -3

(* C4: every entry of every progress log has its score in [-3, 3].         *)
C4_ScoresInRange ==
    \A e \in DOMAIN tm.experiments :
        \A i \in 1..Len(tm.experiments[e].progress_log) :
            tm.experiments[e].progress_log[i].marginal_gain_score \in -3..3

----------------------------------------------------------------------------
(* C9: after any sequence of add_node and add_edge calls (restarts in      *)
(* between included) a GraphManager loaded from the file has as many nodes *)
(* and as many edges as the graph in memory.                               *)
C9_FileUpToDate ==
    /\ number_of_nodes(load_graph(gfile)) = number_of_nodes(gm)
    /\ number_of_edges(load_graph(gfile)) = number_of_edges(gm)

\* an add_edge has just run on a graph with two edges, one of them a
\* self-loop, and a node that only an edge brought in
C9_Witness ==
    /\ last.op = "add_edge"
    /\ number_of_edges(gm) = 2
    /\ \E n \in DOMAIN gm.nodes : <<n, n>> \in DOMAIN gm.edges
    /\ \E n \in DOMAIN gm.nodes : gm.nodes[n] = NoAttrs
    /\ number_of_nodes(load_graph(gfile)) = 2

RECURSIVE Ball(_, _, _)
\* the nodes within d hops of the set A, edge direction ignored
Ball(G, A, d) ==
    IF d = 0 THEN A
    ELSE Ball(G, A \cup {n \in DOMAIN G.nodes :
                           \E a \in A : <<a, n>> \in DOMAIN G.edges
                                       \/ <<n, a>> \in DOMAIN G.edges},
              d - 1)

(* C10: an ego_walk from a non-empty list of anchors that are nodes of the *)
(* graph renders exactly the nodes within depth hops of an anchor, edge    *)
(* direction ignored.                                                      *)
C10_EgoWalkIsBall ==
    (/\ last.op = "ego_walk"
     /\ walk.anchors # <<>>
     /\ Range(walk.anchors) \subseteq DOMAIN gm.nodes)
        => /\ walk.status = "ok"
           /\ walk.nodes = Ball(gm, Range(walk.anchors), walk.depth)

\* the value of the first present field among text, description, label, name
FirstTextField(data) ==
    data[CHOOSE k \in {"text", "description", "label", "name"} \cap DOMAIN data :
            \A j \in {"text", "description", "label", "name"} \cap DOMAIN data :
                \/ k = j
                \/ k = "text"
                \/ (k = "description" /\ j # "text")
                \/ (k = "label" /\ j = "name")]

(* C11: find_nodes_by_text(q) returns exactly the nodes whose first present *)
(* field among text, description, label, name contains q, case ignored; a  *)
(* node with none of the four fields is not returned.                      *)
C11_FindMatchesFirstField ==
    last.op = "find_nodes_by_text" =>
        LET hits == SelectSeq(KeySeq(DOMAIN gm.nodes),
                      LAMBDA n :
                        /\ {"text", "description", "label", "name"} \cap DOMAIN gm.nodes[n] # {}
                        /\ Contains(lower(ret.query), lower(FirstTextField(gm.nodes[n]))))
        IN  ret.result = [i \in 1..Len(hits) |-> gm.nodes[hits[i]]]

(* C12: get_experiments_needing_followup() returns exactly the experiments *)
(* with status active or testing whose last_checked is a date before today *)
(* or is not a date; one checked today is left out, one checked yesterday  *)
(* is returned.                                                            *)
C12_FollowupIsBeforeToday ==
    last.op = "get_experiments_needing_followup" =>
        /\ \A i \in 1..Len(ret) :
              /\ ret[i].id \in DOMAIN tm.experiments
              /\ ret[i] = tm.experiments[ret[i].id]
        /\ \A e \in DOMAIN tm.experiments :
              InSeq(tm.experiments[e], ret) <=>
                  /\ tm.experiments[e].status \in {"active", "testing"}
                  /\ \/ tm.experiments[e].last_checked = NotADate
                     \/ tm.experiments[e].last_checked < today

\* an experiment last checked yesterday is in the result
C12_Witness ==
    /\ last.op = "get_experiments_needing_followup"
    /\ \E i \in 1..Len(ret) : ret[i].last_checked = today - 1

RECURSIVE WeightedCount(_, _, _)
\* the sum over the scores v in lo..hi of v times the number of entries
\* of the log that carry the score v
WeightedCount(log, lo, hi) ==
    IF lo > hi THEN 0
    ELSE lo * Cardinality({i \in 1..Len(log) : log[i].marginal_gain_score = lo})
         + WeightedCount(log, lo + 1, hi)

(* C13: cumulative_progress() of every experiment is the sum of the        *)
(* marginal_gain_score of its log entries (0 for an empty log), and        *)
(* calculate_marginal_gains reports that sum as total_progress.            *)
C13_TotalIsSumOfScores ==
    /\ \A e \in DOMAIN tm.experiments :
          cumulative_progress(tm.experiments[e])
              = WeightedCount(tm.experiments[e].progress_log, -10, 10)
    /\ (last.op = "calculate_marginal_gains" /\ last.ok) =>
          ret.total_progress
              = WeightedCount(tm.experiments[last.id].progress_log, -10, 10)

\* a summary of a log that holds a score outside [-3, 3] and one inside
C13_Witness ==
    /\ last.op = "calculate_marginal_gains" /\ last.ok
    /\ ret.days_tracked = 2
    /\ ret.total_progress = 12

(* C14: successful_days() is the number of log entries whose outcome is    *)
(* success or partial; an entry with any other outcome is not counted.     *)
C14_SuccessfulDaysCountsTwoOutcomes ==
    (last.op = "calculate_marginal_gains" /\ last.ok) =>
        LET log == tm.experiments[last.id].progress_log
            others == {i \in 1..Len(log) : /\ log[i].outcome # "success"
                                           /\ log[i].outcome # "partial"}
        IN  /\ ret.successful_days + Cardinality(others) = Len(log)
            /\ successful_days(tm.experiments[last.id]) = ret.successful_days

\* a summary of a log with one partial entry and one entry whose outcome is
\* not among the four validated values
C14_Witness ==
    /\ last.op = "calculate_marginal_gains" /\ last.ok
    /\ ret.successful_days = 1
    /\ \E i, j \in 1..Len(tm.experiments[last.id].progress_log) :
          /\ tm.experiments[last.id].progress_log[i].outcome = "partial"
          /\ tm.experiments[last.id].progress_log[j].outcome = "Success"

(* C15: the graph is a multigraph: every add_edge, one that repeats an     *)
(* ordered pair included, adds one edge to the graph's count and one link  *)
(* to the persisted document.                                              *)
C15_EveryAddEdgeAddsAnEdge ==
    [][last'.op = "add_edge" =>
          /\ number_of_edges(gm') = number_of_edges(gm) + 1
          /\ Len(gfile'.links) = number_of_edges(gm) + 1]_vars

(* C16: add_node with an id already in the graph leaves the node count as  *)
(* it was, and get_node(id) then returns exactly the attributes of the     *)
(* node added last: id, type and the text-bearing field of that type, with *)
(* no attribute of the earlier node left over.                             *)
C16_AddNodeOverwrites ==
    [][(last'.op = "add_node" /\ last'.id \in DOMAIN gm.nodes) =>
          LET data == get_node(gm', last'.id)
          IN  /\ number_of_nodes(gm') = number_of_nodes(gm)
              /\ data.id = last'.id
              /\ DOMAIN data = {"id", "type"} \cup
                                (IF data.type \in DOMAIN TextField
                                 THEN {TextField[data.type]} ELSE {})]_vars

\* the edge entries of a payload that name a known edge type and two
\* positions of the nodes array from which nodes were made
ResolvableEdges(data, node_of) ==
    {k \in 1..Len(data.edges) :
        /\ data.edges[k].type \in EdgeTypes
        /\ data.edges[k].source_index \in 0..(Len(data.nodes) - 1)
        /\ data.edges[k].target_index \in 0..(Len(data.nodes) - 1)
        /\ node_of[data.edges[k].source_index + 1] # None
        /\ node_of[data.edges[k].target_index + 1] # None}

(* C17: the edges a session adds are the payload's edge entries resolved   *)
(* against the payload's nodes array: an entry with a known type and       *)
(* in-range indices connects the node made from nodes[source_index] to the *)
(* node made from nodes[target_index], whatever other entries the array    *)
(* holds.                                                                  *)
C17_EdgesFollowPayloadPositions ==
    [][(last'.op = "process_session" /\ last'.ok /\ ret'.data.kind = "object") =>
          (DOMAIN gm'.edges) \ (DOMAIN gm.edges)
            = {<<ret'.node_of[ret'.data.edges[k].source_index + 1],
                 ret'.node_of[ret'.data.edges[k].target_index + 1]>> :
                   k \in ResolvableEdges(ret'.data, ret'.node_of)}]_vars

\* model output that is malformed or violates the payload schema
Malformed(data) ==
    \/ data.kind # "object"
    \/ \E i \in 1..Len(data.nodes) : data.nodes[i].kind # "object"
    \/ \E k \in 1..Len(data.edges) : \/ data.edges[k].source_index = NotAnInt
                                      \/ data.edges[k].target_index = NotAnInt

(* C18: on malformed model output process_session raises nothing and       *)
(* leaves the graph in memory and the graph file as they were.             *)
C18_BadOutputChangesNothing ==
    [][(last'.op = "process_session" /\ Malformed(ret'.data)) =>
          /\ last'.ok
          /\ gm' = gm
          /\ gfile' = gfile]_vars

(* C19: constructing a store on a malformed file raises no error and gives *)
(* an empty store, for the graph file and for each of the three tracking   *)
(* files; a missing file gives an empty store too.                         *)
C19_LoadNeverFails ==
    /\ (last.op = "load_graph" /\ (~gfile.exists \/ gfile \in CorruptGraphFiles))
          => gm = EmptyGraph
    /\ last.op = "TrackingManager" =>
          /\ last.ok
          /\ (\E f \in {"gf", "hf", "ef"} : ~FileLoads(disk[f])) => tm = EmptyMem
          /\ (disk = EmptyFiles) => tm = EmptyMem

(* C20: update_goal and update_habit on a known id raise nothing, give the *)
(* record no attribute beyond its schema, leave every other record and the *)
(* files of the other collections as they were and rewrite their own file  *)
(* from memory; on an unknown id they change neither memory nor the files. *)
C20_UpdateTouchesOnlySchemaFields ==
    [][/\ last'.op = "update_goal" =>
            IF last'.id \in DOMAIN tm.goals
            THEN /\ last'.ok
                 /\ DOMAIN tm'.goals[last'.id] = DOMAIN tm.goals[last'.id]
                 /\ \A g \in (DOMAIN tm.goals) \ {last'.id} :
                       tm'.goals[g] = tm.goals[g]
                 /\ tm'.habits = tm.habits /\ tm'.experiments = tm.experiments
                 /\ disk'.hf = disk.hf /\ disk'.ef = disk.ef
                 /\ Len(disk'.gf) = Cardinality(DOMAIN tm'.goals)
            ELSE tm' = tm /\ disk' = disk
       /\ last'.op = "update_habit" =>
            IF last'.id \in DOMAIN tm.habits
            THEN /\ last'.ok
                 /\ DOMAIN tm'.habits[last'.id] = DOMAIN tm.habits[last'.id]
                 /\ \A h \in (DOMAIN tm.habits) \ {last'.id} :
                       tm'.habits[h] = tm.habits[h]
                 /\ tm'.goals = tm.goals /\ tm'.experiments = tm.experiments
                 /\ disk'.gf = disk.gf /\ disk'.ef = disk.ef
                 /\ Len(disk'.hf) = Cardinality(DOMAIN tm'.habits)
            ELSE tm' = tm /\ disk' = disk]_vars

(* C21: the context block has a section exactly when that section's data *)
(* is not empty -- in particular the graph section exactly when the text  *)
(* search on the input found an anchor -- and it is the fallback string   *)
(* exactly when there is no data of any kind.                             *)
HasSection(header) == \E i \in 1..Len(ret.sections) : ret.sections[i].header = header

GraphMatch(user_input) == user_input # <<>> /\ find_nodes_by_text(gm, user_input) # <<>>

C21_SectionsFollowData ==
    (last.op = "get_full_context_block" /\ last.ok) =>
        LET followups == get_experiments_needing_followup(S, today)
        IN  /\ HasSection("ACTIVE GOALS") <=> get_active_goals(S) # <<>>
            /\ HasSection("HABITS IN DEVELOPMENT") <=> get_active_habits(S) # <<>>
            /\ HasSection("EXPERIMENTS NEEDING FOLLOW-UP") <=> followups # <<>>
            /\ HasSection("SUGGESTED FOLLOW-UPS") <=>
                   (followups # <<>> \/ session.open_loops # <<>>)
            /\ HasSection("WEEKLY FOCUS") <=> session.weekly_focus # ""
            /\ HasSection("RELEVANT PAST CONTEXT") <=> GraphMatch(ret.user_input)
            /\ ret.text = Fallback <=>
                   /\ get_active_goals(S) = <<>>
                   /\ get_active_habits(S) = <<>>
                   /\ followups = <<>>
                   /\ session.open_loops = <<>>
                   /\ session.weekly_focus = ""
                   /\ ~GraphMatch(ret.user_input)

(* C22: in every reachable state every experiment's status is one of      *)
(* active, testing, completed, abandoned.                                  *)
ExperimentStatuses == {"active", "testing", "completed", "abandoned"}

C22_StatusInRange ==
    \A e \in DOMAIN tm.experiments : tm.experiments[e].status \in ExperimentStatuses

(* C23: a progress log is append-only.  Over every step, every experiment *)
(* is still there and its previous log is a prefix of its new log; the    *)
(* log grows by at most one entry, and only in a log_progress or in an    *)
(* update_experiment that carries a log_entry, for that experiment.       *)
IsPrefix(old, new) == Len(old) <= Len(new) /\ SubSeq(new, 1, Len(old)) = old

C23_LogAppendOnly ==
    [][\A e \in DOMAIN tm.experiments :
          /\ e \in DOMAIN tm'.experiments
          /\ LET old == tm.experiments[e].progress_log
                 new == tm'.experiments[e].progress_log
             IN  /\ IsPrefix(old, new)
                 /\ Len(new) <= Len(old) + 1
                 /\ Len(new) = Len(old) + 1 =>
                        /\ last'.id = e
                        /\ \/ last'.op = "log_progress"
                           \/ last'.op = "update_experiment" /\ last'.outcome # ""]_vars

\* a second entry has been appended through update_experiment, after which
\* an update naming progress_log has run
C23_Witness ==
    /\ 1 \in DOMAIN tm.experiments
    /\ Len(tm.experiments[1].progress_log) = 2
    /\ tm.experiments[1].progress_log[2].outcome = "partial"
    /\ last.op = "update_experiment" /\ last.ok /\ last.outcome = ""
    /\ tm.experiments[1].status = "active"

(* C24: with two instances on one directory used in alternation, what is *)
(* in a file stays in it: over every step (none of which deletes), every  *)
(* goal, habit and experiment in a file is still in that file afterwards, *)
(* and every progress log in the experiments file is a prefix of the log  *)
(* of the same experiment afterwards.                                     *)
FileLog(file, k) == file[LastLine(file, k)].progress_log

C24_FilesKeepWhatWasWritten ==
    [][/\ LineIds(disk.gf) \subseteq LineIds(disk'.gf)
       /\ LineIds(disk.hf) \subseteq LineIds(disk'.hf)
       /\ LineIds(disk.ef) \subseteq LineIds(disk'.ef)
       /\ \A k \in LineIds(disk.ef) \cap LineIds(disk'.ef) :
              IsPrefix(FileLog(disk.ef, k), FileLog(disk'.ef, k))]_vars

(* C25: in each of the three collections every record is stored under a   *)
(* key equal to its own id.                                                *)
C25_KeysAreIds ==
    /\ \A k \in DOMAIN tm.goals : tm.goals[k].id = k
    /\ \A k \in DOMAIN tm.habits : tm.habits[k].id = k
    /\ \A k \in DOMAIN tm.experiments : tm.experiments[k].id = k

(* C26: right after a log_progress that succeeded on an experiment, the   *)
(* experiment is not among the experiments needing follow-up, whatever    *)
(* its last_checked was; and an experiment logged on the current day is   *)
(* among them after a step only if the date has advanced and its status   *)
(* is active or testing.                                                  *)
Due(mem, e, day) ==
    InSeq(mem.experiments[e], get_experiments_needing_followup(Store(mem, disk), day))

C27_CliLogsLikeLogProgress ==
    [][(/\ last'.op = "em.log_progress"
        /\ last'.id \in DOMAIN em.experiments
        /\ last'.outcome \in Outcomes
        /\ MinScore <= last'.score /\ last'.score <= MaxScore) =>
          LET r == log_progress(ES, last'.id, last'.outcome, "n", last'.score, today)
          IN  /\ em'.experiments[last'.id] = r.experiments[last'.id]
              /\ disk'.ef = r.ef]_vars

(* C28: the relationships of a rendered ego walk are the graph's edges    *)
(* incident to an expanded node (a node within depth - 1 hops of an       *)
(* anchor), each listed exactly once with its stored source, target and   *)
(* type, and both endpoints of every listed edge are rendered nodes.      *)
Expanded(G, w) ==
    IF w.depth = 0 THEN {} ELSE Ball(G, Range(w.anchors), w.depth - 1)

Listings(w, e) ==
    {i \in 1..Len(w.edges) : w.edges[i].source = e[1] /\ w.edges[i].target = e[2]}

C28_EachIncidentEdgeOnce ==
    (last.op = "ego_walk" /\ walk.status = "ok") =>
        LET X == Expanded(gm, walk)
            incident == {e \in DOMAIN gm.edges : e[1] \in X \/ e[2] \in X}
        IN  /\ \A e \in incident : Cardinality(Listings(walk, e)) = 1
            /\ \A i \in 1..Len(walk.edges) :
                  LET e == <<walk.edges[i].source, walk.edges[i].target>>
                  IN  /\ e \in incident
                      /\ walk.edges[i].type = gm.edges[e].type
                      /\ e[1] \in walk.nodes /\ e[2] \in walk.nodes

(* C29: every ego walk that has started comes to an end, and while it     *)
(* runs a node is enqueued only if it was not visited before (the anchors  *)
(* and every node enqueued earlier are visited), so at most once.          *)
C29_EgoWalkTerminates ==
    /\ [][(walk.status = "running" /\ walk'.status = "running") =>
             /\ walk.visited \subseteq walk'.visited
             /\ Len(walk'.queue) > Len(walk.queue) =>
                    /\ Len(walk'.queue) = Len(walk.queue) + 1
                    /\ SubSeq(walk'.queue, 1, Len(walk.queue)) = walk.queue
                    /\ walk'.queue[Len(walk'.queue)][1] \notin walk.visited
                    /\ walk'.queue[Len(walk'.queue)][1] \in walk'.visited]_vars
    /\ (walk.status = "running") ~> (walk.status # "running")

\* a walk from a repeated anchor over a cycle has returned
C29_Witness ==
    /\ last.op = "ego_walk" /\ walk.status = "ok"
    /\ walk.anchors = <<1, 1>> /\ walk.depth = MaxDepth
    /\ {<<1, 2>>, <<2, 1>>} \subseteq DOMAIN gm.edges

(* C30: in every reachable state of the graph store -- after any add_node *)
(* and add_edge, add_edge to an id that is not yet a node included, and    *)
(* after a reload from the file -- every node carries an id attribute      *)
(* equal to its key.                                                       *)
C30_EveryNodeCarriesItsId ==
    \A n \in DOMAIN gm.nodes : gm.nodes[n].id = n

====
